---- MODULE Spec2Model ----
(***************************************************************************)
(* A model of photutils.psf.GriddedPSFModel (griddedpsfmodel.py):          *)
(* construction and grid validation, the bounding-point locator, the       *)
(* bilinear blender, the per-instance lru_cache of fitted interpolators,   *)
(* evaluate(), clear_cache(), copy() and deepcopy().                       *)
(*                                                                         *)
(* Conventions.                                                            *)
(*  - Grid coordinates and the integer cell passed to the cached function  *)
(*    are integers.  A real query coordinate x_0 is a rational h / Res,    *)
(*    carried as the integer h (its number of 1/Res sub-pixels).           *)
(*  - Python sequences are TLA+ sequences; a 0-based Python index i is     *)
(*    element i + 1.  Reference PSFs are named by their 0-based index.     *)
(*  - A reference image is opaque.  A local PSF image is the linear        *)
(*    combination of reference images it was computed as: a weight per     *)
(*    reference index over a common divisor (w, norm).                     *)
(***************************************************************************)
EXTENDS Integers, Sequences, FiniteSets, TLC

VARIABLES
    bundles,      \* NDData objects of the caller: bundle id -> bundle
    models,       \* GriddedPSFModel instances: model id -> attributes
    caches,       \* functools.lru_cache wrappers: cache id -> state
    argsort_tie,  \* how this build's np.argsort orders equal keys
    ctor,         \* outcome of the last __init__ call
    last,         \* outcome of the last evaluate()/clear_cache()/copy
    lastuse,      \* observer: per cache, cell -> time of its last hit or insertion
    clock         \* observer: per cache, number of hits and insertions so far

vars == <<bundles, models, caches, argsort_tie, ctor, last, lastuse, clock>>

None == "none"

----------------------------------------------------------------------------
(* Bounds of the model. *)

\* sub-pixel resolution of a real query coordinate
Res == 2
\* longest grid_xypos list handed to the constructor
MaxN == 4
\* model instances (and NDData objects, and caches) that can be alive
MaxModels == 2
\* row length of the raster in which a caller sweeps over fresh cells
SweepW == 10
\* cache hits, and cache misses, a caller makes between two clear_cache()
MaxHits == 1
MaxMisses == 131
\* calls per cache while copies are being made
CopyMaxCalls == 2

ModelIds == 1..MaxModels

----------------------------------------------------------------------------
(* Helpers for Python and numpy built-ins. *)

Abs(a) == IF a < 0 THEN -a ELSE a

Min(S) == CHOOSE a \in S : \A b \in S : a <= b

Max(S) == CHOOSE a \in S : \A b \in S : a >= b

RECURSIVE SortedSeq(_)
\* the elements of a finite set of integers in ascending order
SortedSeq(S) ==
    IF S = {} THEN <<>> ELSE <<Min(S)>> \o SortedSeq(S \ {Min(S)})

Range(s) == {s[i] : i \in 1..Len(s)}

\* np.unique: the sorted distinct values
Unique(s) == SortedSeq(Range(s))

\* a rounding toward minus infinity in place of int()
PyIntFloors(h) == h \div Res

\* int(x): truncation toward zero of the real h / Res
PyInt(h) == IF h >= 0 THEN h \div Res ELSE -((-h) \div Res)

\* data[start:stop] for a 0-based Python slice
PySlice(data, start, stop) ==
    LET n  == Len(data)
        s0 == IF start < 0 THEN Max({start + n, 0}) ELSE Min({start, n})
        e0 == IF stop < 0 THEN Max({stop + n, 0}) ELSE Min({stop, n})
    IN  IF e0 <= s0 THEN <<>> ELSE [k \in 1..(e0 - s0) |-> data[s0 + k]]

\* itertools.product(a, b): pairs, the last input varying fastest
Product(a, b) ==
    [k \in 1..(Len(a) * Len(b)) |->
        <<a[((k - 1) \div Len(b)) + 1], b[((k - 1) % Len(b)) + 1]>>]

\* np.searchsorted(data, x), side='left', on sorted data
SearchSorted(data, x) == Cardinality({i \in 1..Len(data) : data[i] < x})

\* np.hypot(gx - x, gy - y) up to the monotone square root
Hypot2(p, x, y) == (p[1] - x) * (p[1] - x) + (p[2] - y) * (p[2] - y)

\* np.argsort(d)[0]: the 0-based index of a minimal element.  The default
\* sort kind is not stable, so which of several equal minima comes first is
\* fixed by the build (argsort_tie), not by the call.
ArgsortFirst(d, tie) ==
    LET m    == Min(Range(d))
        cand == {i \in 1..Len(d) : d[i] = m}
    IN  (IF tie = "first" THEN Min(cand) ELSE Max(cand)) - 1

\* lexicographic order on (x, y) tuples
TupleLess(p, q) == p[1] < q[1] \/ (p[1] = q[1] /\ p[2] < q[2])

\* sorted(range(len(xyref)), key=xyref.__getitem__): a stable sort, as
\* 1-based indices into xyref
SortedIdx(xyref) ==
    LET before(i, j) == TupleLess(xyref[i], xyref[j])
                        \/ (xyref[i] = xyref[j] /\ i < j)
        rank(i) == Cardinality({j \in 1..Len(xyref) : before(j, i)})
    IN  [k \in 1..Len(xyref) |->
            CHOOSE i \in 1..Len(xyref) : rank(i) = k - 1]

----------------------------------------------------------------------------
(* GriddedPSFModel.__init__ and _validate_data. *)

\* the checks of _validate_data, in order: the error raised, or None.
\* data.meta is a dictionary: the set of its keys, and a value per key.
ValidateData(data) ==
    IF ~data.nddata THEN "TypeError: data must be an NDData instance"
    ELSE IF data.ndim # 3 THEN "ValueError: data must be a 3D ndarray"
    ELSE IF "grid_xypos" \notin data.meta.keys
        THEN "ValueError: grid_xypos must be in meta"
    ELSE IF Len(data.meta.grid_xypos) # data.shape[1]
        THEN "ValueError: length of grid_xypos must match number of PSFs"
    ELSE IF "oversampling" \notin data.meta.keys
        THEN "ValueError: oversampling must be in meta"
    ELSE IF ~data.meta.oversampling.scalar
        THEN "ValueError: oversampling must be a scalar value"
    ELSE None

\* an instance on which __init__ has set no attribute yet: the set of the
\* attributes it has, and a value per attribute
NoAttrs ==
    [attrs |-> {}, data_input |-> 0, grid_xypos |-> <<>>, oversampling |-> 0,
     fill_value |-> None, xgrid |-> <<>>, ygrid |-> <<>>,
     shape |-> <<>>, calc_interpolator |-> 0]

\* the regular-grid test of __init__: the number of (x, y) products of the
\* unique axes against the number of positions
RegularGrid(xgrid, ygrid, grid_xypos) ==
    Len(Product(xgrid, ygrid)) = Len(grid_xypos)

\* __init__(data, fill_value=...) on NDData object b, with cache id c for the
\* lru_cache wrapper it creates: the error raised (or None), the attributes
\* set on self when it returned or raised, and data.meta as it is left
New(b, data, fill_value, c) ==
    LET err == ValidateData(data)
    IN  IF err # None
        THEN [raised |-> err, self |-> NoAttrs, meta |-> data.meta]
        ELSE
        LET pos   == data.meta.grid_xypos
            xs    == [i \in 1..Len(pos) |-> pos[i][1]]
            ys    == [i \in 1..Len(pos) |-> pos[i][2]]
            xgrid == Unique(xs)
            ygrid == Unique(ys)
            \* self.meta is data.meta: the dictionary of the caller
            meta2 == [data.meta EXCEPT
                         !.keys = @ \cup {"grid_shape"},
                         !.grid_shape = <<Len(ygrid), Len(xgrid)>>]
            part  == [NoAttrs EXCEPT
                         !.attrs = {"data_input", "data", "grid_xypos",
                                    "oversampling", "fill_value",
                                    "xgrid", "ygrid"},
                         !.data_input = b, !.grid_xypos = pos,
                         !.oversampling = data.meta.oversampling.value,
                         !.fill_value = fill_value, !.shape = data.shape,
                         !.xgrid = xgrid, !.ygrid = ygrid]
        IN  IF ~RegularGrid(xgrid, ygrid, pos)
            THEN [raised |-> "ValueError: grid_xypos must form a regular grid",
                  self |-> part, meta |-> meta2]
            ELSE [raised |-> None,
                  self |-> [part EXCEPT
                               !.attrs = @ \cup {"calc_interpolator"},
                               !.calc_interpolator = c],
                  meta |-> meta2]

----------------------------------------------------------------------------
(* The locator and the blender. *)

\* _find_start_idx(data, x): the 0-based index of the lower bound
FindStartIdx(data, x) ==
    LET idx == SearchSorted(data, x)
    IN  IF idx = 0 THEN 0
        ELSE IF idx = Len(data) THEN idx - 2
        ELSE idx - 1

\* the distances of every reference position to (x, y)
Dists(self, x, y) ==
    [i \in 1..Len(self.grid_xypos) |-> Hypot2(self.grid_xypos[i], x, y)]

\* _find_bounding_points(x, y): the 0-based reference indices of the samples
\* closest to the candidate corners
FindBoundingPoints(self, x, y, tie) ==
    LET x0 == FindStartIdx(self.xgrid, x)
        y0 == FindStartIdx(self.ygrid, y)
        xypoints == Product(PySlice(self.xgrid, x0, x0 + 2),
                            PySlice(self.ygrid, y0, y0 + 2))
    IN  [k \in 1..Len(xypoints) |->
            ArgsortFirst(Dists(self, xypoints[k][1], xypoints[k][2]), tie)]

\* no image: the value of the image slot of a call that raised
NoImage == [w |-> <<>>, norm |-> 0]

\* the image that is reference image ref, unblended
SingleImage(n, ref) ==
    [w |-> [i \in 0..(n - 1) |-> IF i = ref THEN 1 ELSE 0], norm |-> 1]

\* _bilinear_interp(xyref, zref, xi, yi), zref being the reference indices
\* of the four images; n is the number of reference images
BilinearInterp(xyref, zref, xi, yi, n) ==
    IF Len(xyref) # 4
    THEN [raised |-> "ValueError: not enough values to unpack",
          image |-> NoImage]
    ELSE
    LET idx    == SortedIdx(xyref)
        sorted == [k \in 1..4 |-> xyref[idx[k]]]
        x0  == sorted[1][1]
        y0  == sorted[1][2]
        xx0 == sorted[2][1]
        y1  == sorted[2][2]
        x1  == sorted[3][1]
        yy0 == sorted[3][2]
        xx1 == sorted[4][1]
        yy1 == sorted[4][2]
        data    == [k \in 1..4 |-> zref[idx[k]]]
        weights == <<(x1 - xi) * (y1 - yi), (x1 - xi) * (yi - y0),
                     (xi - x0) * (y1 - yi), (xi - x0) * (yi - y0)>>
        wsum(i) == (IF data[1] = i THEN weights[1] ELSE 0)
                   + (IF data[2] = i THEN weights[2] ELSE 0)
                   + (IF data[3] = i THEN weights[3] ELSE 0)
                   + (IF data[4] = i THEN weights[4] ELSE 0)
    IN  IF x0 # xx0 \/ x1 # xx1 \/ y0 # yy0 \/ y1 # yy1
        THEN [raised |-> "ValueError: refxy points do not form a rectangle",
              image |-> NoImage]
        ELSE IF ~(x0 <= xi /\ xi <= x1) \/ ~(y0 <= yi /\ yi <= y1)
        THEN [raised |-> "ValueError: input is not within the rectangle",
              image |-> NoImage]
        ELSE [raised |-> None,
              image |-> [w |-> [i \in 0..(n - 1) |-> wsum(i)],
                         norm |-> (x1 - x0) * (y1 - y0)]]

\* an outside-of-the-grid test that forgets the y axis
OutsideGridXOnly(self, x_0, y_0) ==
    x_0 < self.xgrid[1] \/ x_0 > self.xgrid[Len(self.xgrid)]

\* whether _calc_interpolator_uncached takes its outside-of-the-grid branch
OutsideGrid(self, x_0, y_0) ==
    \/ x_0 < self.xgrid[1] \/ x_0 > self.xgrid[Len(self.xgrid)]
    \/ y_0 < self.ygrid[1] \/ y_0 > self.ygrid[Len(self.ygrid)]

\* _calc_interpolator_uncached(x_0, y_0): the spline fitted to the local PSF
\* image (named by the image it interpolates), or the error raised
CalcInterpolatorUncached(self, x_0, y_0, tie) ==
    LET n == Len(self.grid_xypos)
    IN  IF OutsideGrid(self, x_0, y_0)
        THEN [raised |-> None, branch |-> "nearest",
              image |-> SingleImage(n, ArgsortFirst(Dists(self, x_0, y_0), tie))]
        ELSE
        LET ref_indices == FindBoundingPoints(self, x_0, y_0, tie)
            xyref == [k \in 1..Len(ref_indices) |->
                         self.grid_xypos[ref_indices[k] + 1]]
            r == BilinearInterp(xyref, ref_indices, x_0, y_0, n)
        IN  [raised |-> r.raised, branch |-> "bilinear", image |-> r.image]

----------------------------------------------------------------------------
(* The lru_cache wrapper created in __init__ (functools, bounded case). *)

\* lru_cache(maxsize=128)
maxsize == 128

\* the wrapper around the bound method of instance m, as created: entries
\* are kept from least to most recently used
NewCache(m) == [entries |-> <<>>, hits |-> 0, misses |-> 0, func_self |-> m]

\* a cache key that forgets y_0
MakeKeyXOnly(x_0, y_0) == <<x_0, 0>>

\* the cache key of the call _calc_interpolator(x_0, y_0)
MakeKey(x_0, y_0) == <<x_0, y_0>>

\* the position of the entry of key in the cache, 0 when there is none
LruLookup(cache, key) ==
    IF \E i \in 1..Len(cache.entries) : cache.entries[i].key = key
    THEN CHOOSE i \in 1..Len(cache.entries) : cache.entries[i].key = key
    ELSE 0

\* a hit that counts and leaves the entry where it is
LruHitNoRefresh(cache, i) == [cache EXCEPT !.hits = @ + 1]

\* a hit on entry i: the entry becomes the most recently used one
LruHit(cache, i) ==
    [cache EXCEPT
        !.entries = SubSeq(@, 1, i - 1) \o SubSeq(@, i + 1, Len(@))
                    \o <<cache.entries[i]>>,
        !.hits = @ + 1]

\* a miss whose call returned result: the result is stored as the most
\* recently used entry, in place of the least recently used one when full
LruInsert(cache, key, result) ==
    LET e == [key |-> key, result |-> result]
    IN  [cache EXCEPT
            !.entries = IF Len(@) < maxsize THEN Append(@, e)
                        ELSE Append(Tail(@), e),
            !.misses = @ + 1]

\* a miss whose call raised: the miss is counted and nothing is stored
LruRaise(cache) == [cache EXCEPT !.misses = @ + 1]

\* cache_clear()
LruClear(cache) == [cache EXCEPT !.entries = <<>>, !.hits = 0, !.misses = 0]

\* cache_info()
CacheInfo(cache) ==
    [hits |-> cache.hits, misses |-> cache.misses, maxsize |-> maxsize,
     currsize |-> Len(cache.entries)]

\* the keys the cache holds
CachedKeys(cache) == {cache.entries[i].key : i \in 1..Len(cache.entries)}

----------------------------------------------------------------------------
(* evaluate(). *)

\* RectBivariateSpline(xidx, yidx, psf_image.T, kx=3, ky=3, s=0): the
\* interpolating spline, a function of the image and the pixel-index axes
Fit(self, image) ==
    [kx |-> 3, ky |-> 3, s |-> 0, nx |-> self.shape[3], ny |-> self.shape[2],
     z |-> image]

\* no spline, and no value: the slots of a call that raised
NoSpline == [kx |-> 0, ky |-> 0, s |-> 0, nx |-> 0, ny |-> 0, z |-> NoImage]

NoValue ==
    [filled |-> FALSE, fill_value |-> None, flux |-> 0,
     interpolator |-> NoSpline, xi |-> 0, yi |-> 0]

\* the cell evaluate() passes to _calc_interpolator for the position
\* (hx / Res, hy / Res)
CellOf(hx, hy) == <<PyInt(hx), PyInt(hy)>>

\* the part of evaluate() after the interpolator is known, for scalar x, y:
\* xi and yi in units of 1 / (2 Res) pixel, the fill, the scaled value
\* flux * interpolator.ev(xi, yi) left symbolic
EvaluateWith(self, interpolator, x, y, flux, hx, hy) ==
    LET ny  == self.shape[2]
        nx  == self.shape[3]
        xi  == 2 * self.oversampling * (x * Res - hx) + Res * (nx - 1)
        yi  == 2 * self.oversampling * (y * Res - hy) + Res * (ny - 1)
        invalid == \/ xi < 0 \/ xi > 2 * Res * (nx - 1)
                   \/ yi < 0 \/ yi > 2 * Res * (ny - 1)
    IN  IF self.fill_value # None /\ invalid
        THEN [filled |-> TRUE, fill_value |-> self.fill_value, flux |-> 0,
              interpolator |-> NoSpline, xi |-> 0, yi |-> 0]
        ELSE [filled |-> FALSE, fill_value |-> None, flux |-> flux,
              interpolator |-> interpolator, xi |-> xi, yi |-> yi]

\* what evaluate() returns or raises on a model whose interpolators are not
\* cached: locate, blend and fit on every call
EvaluateUncached(self, x, y, flux, hx, hy, tie) ==
    LET cell == CellOf(hx, hy)
        r    == CalcInterpolatorUncached(self, cell[1], cell[2], tie)
    IN  IF r.raised # None
        THEN [raised |-> r.raised, value |-> NoValue]
        ELSE [raised |-> None,
              value |-> EvaluateWith(self, Fit(self, r.image), x, y, flux, hx, hy)]

Alive(m) == "calc_interpolator" \in models[m].attrs

EmptyFun == [k \in {} |-> 0]

\* the interpolator a miss produces: the spline of the image, if any
MissResult(self, r) ==
    IF r.raised = None THEN Fit(self, r.image) ELSE NoSpline

\* evaluate(x, y, flux, x_0, y_0) on model m, with x_0 = hx / Res and
\* y_0 = hy / Res
Evaluate(m, x, y, flux, hx, hy) ==
    /\ Alive(m)
    /\ LET self  == models[m]
           c     == self.calc_interpolator
           cache == caches[c]
           cell  == CellOf(hx, hy)
           key   == MakeKey(cell[1], cell[2])
       IN  \E i \in {LruLookup(cache, key)} :
           \* the wrapped function is the bound method of the instance the
           \* wrapper was created for
           \E r \in {IF i # 0 THEN [raised |-> None, branch |-> "cached",
                                     image |-> NoImage]
                     ELSE CalcInterpolatorUncached(models[cache.func_self],
                              cell[1], cell[2], argsort_tie)} :
           \E interp \in {IF i # 0 THEN cache.entries[i].result
                          ELSE MissResult(models[cache.func_self], r)} :
           \E cache2 \in {IF i # 0 THEN LruHit(cache, i)
                          ELSE IF r.raised = None
                               THEN LruInsert(cache, key, interp)
                               ELSE LruRaise(cache)} :
           /\ caches' = [caches EXCEPT ![c] = cache2]
           /\ last' = [op |-> "evaluate", m |-> m, c |-> c,
                       args |-> <<x, y, flux, hx, hy>>, cell |-> cell,
                       hit |-> (i # 0), raised |-> r.raised,
                       branch |-> r.branch,
                       interpolator |-> interp,
                       value |-> IF r.raised # None THEN NoValue
                                 ELSE EvaluateWith(self, interp, x, y, flux, hx, hy),
                       evicted |-> IF Len(cache2.entries) > Len(cache.entries)
                                      \/ i # 0 \/ r.raised # None
                                   THEN {}
                                   ELSE {cache.entries[1].key}]
           /\ IF r.raised = None
              THEN /\ clock' = [clock EXCEPT ![c] = @ + 1]
                   /\ lastuse' = [lastuse EXCEPT
                                     ![c] = (cell :> (clock[c] + 1)) @@ @]
              ELSE UNCHANGED <<clock, lastuse>>
    /\ UNCHANGED <<bundles, models, argsort_tie, ctor>>

\* clear_cache() on model m
ClearCache(m) ==
    /\ Alive(m)
    /\ LET c == models[m].calc_interpolator
       IN  /\ caches' = [caches EXCEPT ![c] = LruClear(@)]
           /\ last' = [op |-> "clear_cache", m |-> m, c |-> c,
                       size_before |-> Len(caches[c].entries)]
           /\ clock' = [clock EXCEPT ![c] = 0]
           /\ lastuse' = [lastuse EXCEPT ![c] = EmptyFun]
    /\ UNCHANGED <<bundles, models, argsort_tie, ctor>>

----------------------------------------------------------------------------
(* Construction, copy() and deepcopy() as operations on the heap. *)

NoBundle ==
    [nddata |-> FALSE, ndim |-> 0, shape |-> <<>>,
     meta |-> [keys |-> {}, grid_xypos |-> <<>>,
               oversampling |-> [scalar |-> FALSE, value |-> 0],
               grid_shape |-> <<>>]]

\* an NDData object: a stack of npsf images of 5 x 5 pixels, and a meta
\* dictionary with the given keys
Bundle(nddata, ndim, npsf, keys, grid, ov) ==
    [nddata |-> nddata, ndim |-> ndim,
     shape |-> IF ndim = 3 THEN <<npsf, 5, 5>> ELSE <<5, 5>>,
     meta |-> [keys |-> keys,
               grid_xypos |-> IF "grid_xypos" \in keys THEN grid ELSE <<>>,
               oversampling |-> IF "oversampling" \in keys THEN ov
                                ELSE [scalar |-> FALSE, value |-> 0],
               grid_shape |-> <<>>]]

\* a well-formed NDData object for the positions grid, oversampling 1
GridBundle(grid) ==
    Bundle(TRUE, 3, Len(grid), {"grid_xypos", "oversampling"}, grid,
           [scalar |-> TRUE, value |-> 1])

\* GriddedPSFModel(data, fill_value=fill_value), data being NDData object b
\* and the new instance, if any, getting id m
Construct(b, m, fill_value) ==
    /\ ~ctor.called
    /\ ~Alive(m)
    /\ LET r == New(b, bundles[b], fill_value, m)
       IN  /\ bundles' = [bundles EXCEPT ![b].meta = r.meta]
           /\ ctor' = [called |-> TRUE, raised |-> r.raised, self |-> r.self,
                       b |-> b, meta_before |-> bundles[b].meta]
           /\ IF r.raised = None
              THEN /\ models' = [models EXCEPT ![m] = r.self]
                   /\ caches' = [caches EXCEPT ![m] = NewCache(m)]
              ELSE UNCHANGED <<models, caches>>
    /\ UNCHANGED <<argsort_tie, last, lastuse, clock>>

\* m.copy(), the new instance getting id m2: __init__ on the same NDData
Copy(m, m2) ==
    /\ Alive(m)
    /\ ~Alive(m2)
    /\ LET b == models[m].data_input
           r == New(b, bundles[b], models[m].fill_value, m2)
       IN  /\ bundles' = [bundles EXCEPT ![b].meta = r.meta]
           /\ ctor' = [called |-> TRUE, raised |-> r.raised, self |-> r.self,
                       b |-> b, meta_before |-> bundles[b].meta]
           /\ IF r.raised = None
              THEN /\ models' = [models EXCEPT ![m2] = r.self]
                   /\ caches' = [caches EXCEPT ![m2] = NewCache(m2)]
              ELSE UNCHANGED <<models, caches>>
           /\ last' = [op |-> "copy", m |-> m, new |-> m2]
    /\ UNCHANGED <<argsort_tie, lastuse, clock>>

\* m.deepcopy(), the new instance getting id m2: copy.deepcopy duplicates
\* every attribute of the instance, the NDData object included, except the
\* lru_cache wrapper, whose __deepcopy__ returns the wrapper itself
Deepcopy(m, m2) ==
    /\ Alive(m)
    /\ ~Alive(m2)
    /\ bundles' = [bundles EXCEPT ![m2] = bundles[models[m].data_input]]
    /\ models' = [models EXCEPT ![m2] = [models[m] EXCEPT !.data_input = m2]]
    /\ last' = [op |-> "deepcopy", m |-> m, new |-> m2]
    /\ UNCHANGED <<caches, argsort_tie, ctor, lastuse, clock>>

----------------------------------------------------------------------------
(* Inputs. *)

Ties == {"first", "last"}

\* grid positions on a lattice of step 2
Positions == {<<0, 0>>, <<0, 2>>, <<2, 0>>, <<2, 2>>}

\* the grid_xypos lists of at most n positions
GridLists(n) == UNION {[1..k -> Positions] : k \in 1..n}

\* whether __init__ accepts the list of positions
Accepted(grid) ==
    New(1, GridBundle(grid), "0.0", 1).raised = None

\* the bundles handed to the constructor
CtorBundles ==
    {Bundle(nd, ndim, npsf, keys, grid, ov) :
        nd \in BOOLEAN, ndim \in {2, 3}, npsf \in 1..MaxN,
        keys \in SUBSET {"grid_xypos", "oversampling"},
        grid \in GridLists(MaxN),
        ov \in {[scalar |-> TRUE, value |-> 1],
                [scalar |-> FALSE, value |-> 0]}}

\* a 3 x 2 and a 3 x 1 grid, stored out of axis order
ExtraGrids ==
    {<<<<2, 0>>, <<0, 2>>, <<1, 0>>, <<0, 0>>, <<2, 2>>, <<1, 2>>>>,
     <<<<0, 0>>, <<2, 0>>, <<1, 0>>>>}

\* the grids of the models that are evaluated: every list the constructor
\* accepts that starts at the origin, and the two above
EvalGrids ==
    {g \in GridLists(MaxN) : g[1] = <<0, 0>> /\ Accepted(g)} \cup ExtraGrids

\* query coordinates, in 1 / Res pixel: from -2 + 1 / Res to 4 - 1 / Res
EvalQ == (1 - 2 * Res)..(4 * Res - 1)

\* the grids of the model whose cache is filled: 2 x 2, and a single PSF
CacheGrids ==
    {<<<<0, 0>>, <<0, 8>>, <<8, 0>>, <<8, 8>>>>, <<<<3, 1>>>>}

\* the grid of the model that is copied
CopyGrid == <<<<0, 0>>, <<0, 2>>, <<2, 0>>, <<2, 2>>>>

CopyQ == {0, 1, Res}

----------------------------------------------------------------------------
(* Initial states. *)

\* nothing constructed yet; NDData object 1 is data
Fresh(data, tie) ==
    /\ bundles = [b \in ModelIds |-> IF b = 1 THEN data ELSE NoBundle]
    /\ models = [m \in ModelIds |-> NoAttrs]
    /\ caches = [c \in ModelIds |-> NewCache(0)]
    /\ argsort_tie = tie
    /\ ctor = [called |-> FALSE, raised |-> None, self |-> NoAttrs, b |-> 0,
               meta_before |-> NoBundle.meta]
    /\ last = [op |-> "none"]
    /\ lastuse = [c \in ModelIds |-> EmptyFun]
    /\ clock = [c \in ModelIds |-> 0]

\* model 1 constructed from the positions grid, with the default fill_value
Constructed(grid, tie) ==
    LET data == GridBundle(grid)
        r    == New(1, data, "0.0", 1)
    IN  /\ bundles = [b \in ModelIds |->
                         IF b = 1 THEN [data EXCEPT !.meta = r.meta]
                         ELSE NoBundle]
        /\ models = [m \in ModelIds |-> IF m = 1 THEN r.self ELSE NoAttrs]
        /\ caches = [c \in ModelIds |-> IF c = 1 THEN NewCache(1) ELSE NewCache(0)]
        /\ argsort_tie = tie
        /\ ctor = [called |-> TRUE, raised |-> r.raised, self |-> r.self,
                   b |-> 1, meta_before |-> data.meta]
        /\ last = [op |-> "none"]
        /\ lastuse = [c \in ModelIds |-> EmptyFun]
        /\ clock = [c \in ModelIds |-> 0]

InitCtor == \E data \in CtorBundles, tie \in Ties : Fresh(data, tie)

InitEval == \E grid \in EvalGrids, tie \in Ties : Constructed(grid, tie)

InitCache == \E grid \in CacheGrids, tie \in Ties : Constructed(grid, tie)

InitCopy == \E tie \in Ties : Constructed(CopyGrid, tie)

----------------------------------------------------------------------------
(* Scenarios. *)

\* one constructor call on the bundle
NextCtor == \E fill_value \in {"0.0", None} : Construct(1, 1, fill_value)

SpecCtor == InitCtor /\ [][NextCtor]_vars

\* evaluate() at any position on a model whose cache holds nothing
EvaluateFresh(hx, hy) ==
    /\ caches[1].hits + caches[1].misses = 0
    /\ Evaluate(1, 0, 0, 1, hx, hy)

NextEval ==
    \/ \E hx \in EvalQ, hy \in EvalQ : EvaluateFresh(hx, hy)
    \/ ClearCache(1)

SpecEval == InitEval /\ [][NextEval]_vars

\* the position of the n-th cell of the raster
SweepX(n) == Res * (n % SweepW)

SweepY(n) == Res * (n \div SweepW)

\* evaluate() at the next cell of the raster
EvaluateSweep ==
    /\ caches[1].misses < MaxMisses
    /\ Evaluate(1, 0, 0, 1, SweepX(caches[1].misses), SweepY(caches[1].misses))

\* evaluate() again near the first cell of the raster, between two rows
EvaluateHome(x, dx, flux) ==
    /\ caches[1].misses > 0
    /\ caches[1].misses % SweepW = 0
    /\ IF LruLookup(caches[1], MakeKey(0, 0)) # 0
       THEN caches[1].hits < MaxHits
       ELSE caches[1].misses < MaxMisses
    /\ Evaluate(1, x, 0, flux, dx, 0)

NextCache ==
    \/ EvaluateSweep
    \/ \E x \in {0, 3}, dx \in {0, 1}, flux \in {1, 2} : EvaluateHome(x, dx, flux)
    \/ ClearCache(1)

SpecCache == InitCache /\ [][NextCache]_vars

\* evaluate() on any model while copies are being made
EvaluateAny(m, hx, hy) ==
    /\ Alive(m)
    /\ LET c == models[m].calc_interpolator
       IN  caches[c].hits + caches[c].misses < CopyMaxCalls
    /\ Evaluate(m, 0, 0, 1, hx, hy)

\* the id the next instance gets
NextId == Min({m \in ModelIds : ~Alive(m)})

NextCopy ==
    \/ \E m \in ModelIds :
          /\ \E m2 \in ModelIds : ~Alive(m2)
          /\ Copy(m, NextId)
    \/ \E m \in ModelIds :
          /\ \E m2 \in ModelIds : ~Alive(m2)
          /\ Deepcopy(m, NextId)
    \/ \E m \in ModelIds, hx \in CopyQ, hy \in CopyQ : EvaluateAny(m, hx, hy)
    \/ \E m \in ModelIds : ClearCache(m)

SpecCopy == InitCopy /\ [][NextCopy]_vars

----------------------------------------------------------------------------
(* Vocabulary of the properties, stated apart from the code's own tests.   *)

\* the model whose cache is observed in the single-model scenarios
TheModel == models[1]

TheCache == caches[1]

\* equality of two local images as pixel values (reference images being
\* linearly independent)
ImageEq(a, b) ==
    /\ DOMAIN a.w = DOMAIN b.w
    /\ a.norm # 0 /\ b.norm # 0
    /\ \A i \in DOMAIN a.w : a.w[i] * b.norm = b.w[i] * a.norm

\* the span of the reference positions on each axis
MinX(self) == Min({self.grid_xypos[i][1] : i \in 1..Len(self.grid_xypos)})

MaxX(self) == Max({self.grid_xypos[i][1] : i \in 1..Len(self.grid_xypos)})

MinY(self) == Min({self.grid_xypos[i][2] : i \in 1..Len(self.grid_xypos)})

MaxY(self) == Max({self.grid_xypos[i][2] : i \in 1..Len(self.grid_xypos)})

\* the real position (hx / Res, hy / Res) lies beyond the span on an axis
QueryBeyond(self, hx, hy) ==
    \/ hx < Res * MinX(self) \/ hx > Res * MaxX(self)
    \/ hy < Res * MinY(self) \/ hy > Res * MaxY(self)

\* the integer position (cx, cy) lies beyond the span on an axis
CellBeyond(self, cx, cy) ==
    \/ cx < MinX(self) \/ cx > MaxX(self)
    \/ cy < MinY(self) \/ cy > MaxY(self)

\* the 0-based indices of the reference positions at minimal distance from
\* the real position (hx / Res, hy / Res)
NearestTo(self, hx, hy) ==
    LET d(i) == Hypot2(<<Res * self.grid_xypos[i][1],
                         Res * self.grid_xypos[i][2]>>, hx, hy)
    IN  {i - 1 : i \in {j \in 1..Len(self.grid_xypos) :
                          \A k \in 1..Len(self.grid_xypos) : d(j) <= d(k)}}

\* the integer part of h / Res: the integer of the same sign whose
\* magnitude is the largest not above |h / Res|
TruncToZero(h) ==
    CHOOSE n \in (-Abs(h))..Abs(h) :
        /\ n * h >= 0
        /\ Abs(n) * Res <= Abs(h)
        /\ Abs(h) < (Abs(n) + 1) * Res

\* the largest integer not above h / Res
FloorOf(h) ==
    CHOOSE n \in (-Abs(h) - 1)..Abs(h) : n * Res <= h /\ h < (n + 1) * Res

----------------------------------------------------------------------------
(* C1: the cache never holds more than 128 entries, its keys are distinct, *)
(* and it holds exactly the most recently used cells (use = hit or         *)
(* insertion): every used cell that is not cached was last used before     *)
(* every cached one, and cells are only dropped when 128 are held; the     *)
(* entry dropped by a miss on a full cache is the least recently used.     *)
C1_CacheBoundedLRU ==
    LET used   == DOMAIN lastuse[1]
        cached == CachedKeys(TheCache)
        n      == Len(TheCache.entries)
    IN  /\ n <= 128
        /\ Cardinality(cached) = n
        /\ cached \subseteq used
        /\ \A k \in used \ cached :
              /\ n = 128
              /\ \A j \in cached : lastuse[1][k] < lastuse[1][j]
        /\ (last.op = "evaluate" /\ last.evicted # {}) =>
              /\ ~last.hit
              /\ n = 128
              /\ \A k \in last.evicted : k \notin cached

\* a miss on a full cache dropped cell (1, 0) and not the older-inserted
\* cell (0, 0), which a hit had refreshed
C1_Witness ==
    /\ last.op = "evaluate"
    /\ last.evicted = {<<1, 0>>}
    /\ <<0, 0>> \in CachedKeys(TheCache)
    /\ TheCache.hits > 0
    /\ Len(TheCache.entries) = 128

----------------------------------------------------------------------------
(* C2: an evaluate() for a cached cell adds 1 to the hit count and leaves  *)
(* the miss count and the size alone; an evaluate() for a cell that is not *)
(* cached adds 1 to the miss count and leaves an entry for the cell.       *)
C2_Claim ==
    [][last'.op = "evaluate" =>
        LET cell == last'.cell
        IN  IF cell \in CachedKeys(TheCache)
            THEN /\ last'.hit
                 /\ CacheInfo(TheCache').hits = CacheInfo(TheCache).hits + 1
                 /\ CacheInfo(TheCache').misses = CacheInfo(TheCache).misses
                 /\ CacheInfo(TheCache').currsize = CacheInfo(TheCache).currsize
            ELSE /\ ~last'.hit
                 /\ CacheInfo(TheCache').misses = CacheInfo(TheCache).misses + 1
                 /\ CacheInfo(TheCache').hits = CacheInfo(TheCache).hits
                 /\ cell \in CachedKeys(TheCache')]_vars

----------------------------------------------------------------------------
(* C3: clear_cache() leaves the cache empty, and the evaluate() that       *)
(* follows it is a miss that inserts an entry: the size becomes 1.         *)
C3_Claim ==
    [][/\ last'.op = "clear_cache" => Len(TheCache'.entries) = 0
       /\ (last.op = "clear_cache" /\ last'.op = "evaluate") =>
              /\ ~last'.hit
              /\ CacheInfo(TheCache').misses = 1
              /\ CacheInfo(TheCache').currsize = 1]_vars

----------------------------------------------------------------------------
(* C4: every list of positions the constructor accepts is the full         *)
(* product X x Y of its distinct x and y values, each point once.          *)
C4_Claim ==
    (ctor.called /\ ctor.raised = None) =>
        LET pos == ctor.self.grid_xypos
            X   == {pos[i][1] : i \in 1..Len(pos)}
            Y   == {pos[i][2] : i \in 1..Len(pos)}
        IN  /\ Range(pos) = X \X Y
            /\ Cardinality(Range(pos)) = Len(pos)

----------------------------------------------------------------------------
(* C5 as claimed: when the real position (x0, y0) is beyond the span of    *)
(* the reference positions, the fitted image is the reference image        *)
(* nearest to (x0, y0), the first index on ties.                           *)
C5_Original ==
    (last.op = "evaluate"
     /\ QueryBeyond(TheModel, last.args[4], last.args[5])) =>
        /\ last.raised = None
        /\ ImageEq(last.interpolator.z,
                   SingleImage(Len(TheModel.grid_xypos),
                               Min(NearestTo(TheModel, last.args[4], last.args[5]))))

(* C5 as amended: when the truncated position (int(x0), int(y0)) is beyond *)
(* the span of the reference positions, evaluate() does not raise and the  *)
(* fitted image is one reference image, unblended, at minimal distance     *)
(* from the truncated position; when argsort keeps equal keys in index     *)
(* order it is the first such image.                                       *)
C5_Amended ==
    (last.op = "evaluate"
     /\ CellBeyond(TheModel, last.cell[1], last.cell[2])) =>
        /\ last.raised = None
        /\ \E ref \in NearestTo(TheModel, Res * last.cell[1], Res * last.cell[2]) :
              /\ last.interpolator.z = SingleImage(Len(TheModel.grid_xypos), ref)
              /\ argsort_tie = "first" =>
                    ref = Min(NearestTo(TheModel, Res * last.cell[1],
                                        Res * last.cell[2]))

\* an evaluate() at a position with a fractional part whose truncation is
\* beyond the span, two reference images being equally near
C5_Witness ==
    /\ last.op = "evaluate"
    /\ last.args[4] % Res # 0
    /\ CellBeyond(TheModel, last.cell[1], last.cell[2])
    /\ Cardinality(NearestTo(TheModel, Res * last.cell[1], Res * last.cell[2])) > 1
    /\ last.raised = None

----------------------------------------------------------------------------
(* C6 as claimed: the cell evaluate() resolves is (floor(x0), floor(y0)).  *)
C6_Original ==
    last.op = "evaluate" =>
        last.cell = <<FloorOf(last.args[4]), FloorOf(last.args[5])>>

(* C6 as amended: the cell evaluate() resolves is (int(x0), int(y0)), the  *)
(* truncation toward zero: the floor for x0 >= 0 and for integers, the     *)
(* ceiling for negative non-integers.  The cell is the cache key and the   *)
(* position handed to locate and blend.                                    *)
C6_Amended ==
    last.op = "evaluate" =>
        LET cx == TruncToZero(last.args[4])
            cy == TruncToZero(last.args[5])
        IN  /\ last.cell = <<cx, cy>>
            /\ \A h \in {last.args[4], last.args[5]} :
                  TruncToZero(h) = IF h >= 0 \/ h % Res = 0
                                   THEN FloorOf(h) ELSE FloorOf(h) + 1
            /\ last.raised = None =>
                  /\ <<cx, cy>> \in CachedKeys(TheCache)
                  /\ last.interpolator =
                        MissResult(TheModel,
                            CalcInterpolatorUncached(TheModel, cx, cy, argsort_tie))
            /\ last.raised # None =>
                  last.raised =
                      CalcInterpolatorUncached(TheModel, cx, cy, argsort_tie).raised

\* an evaluate() at a negative non-integer x0 that returned
C6_Witness ==
    /\ last.op = "evaluate"
    /\ last.args[4] < 0
    /\ last.args[4] % Res # 0
    /\ last.cell[1] = 0
    /\ last.raised = None

----------------------------------------------------------------------------
(* C7: for a position within the span of the grid on both axes, locate     *)
(* returns 4 indices whose positions are the corners of a rectangle        *)
(* around the position, and the blend raises nothing.                      *)
C7_Claim ==
    (last.op = "evaluate"
     /\ ~CellBeyond(TheModel, last.cell[1], last.cell[2])) =>
        LET idx == FindBoundingPoints(TheModel, last.cell[1], last.cell[2],
                                      argsort_tie)
            pts == {TheModel.grid_xypos[idx[k] + 1] : k \in 1..Len(idx)}
        IN  /\ Len(idx) = 4
            /\ \E xa, xb \in Range(TheModel.xgrid), ya, yb \in Range(TheModel.ygrid) :
                  /\ xa < xb /\ ya < yb
                  /\ pts = {xa, xb} \X {ya, yb}
                  /\ xa <= last.cell[1] /\ last.cell[1] <= xb
                  /\ ya <= last.cell[2] /\ last.cell[2] <= yb
            /\ last.raised = None

----------------------------------------------------------------------------
(* C8: when the constructor raises, the meta dictionary of the caller is   *)
(* as it was before the call and no derived attribute (unique axes) has    *)
(* been set.                                                               *)
C8_Claim ==
    (ctor.called /\ ctor.raised # None) =>
        /\ bundles[ctor.b].meta = ctor.meta_before
        /\ "xgrid" \notin ctor.self.attrs
        /\ "ygrid" \notin ctor.self.attrs

----------------------------------------------------------------------------
(* C9: evaluate() and clear_cache() on one model leave the cache of every  *)
(* other model as it was, and the cache of a model computes from that      *)
(* model.                                                                  *)
C9_Claim ==
    [][\A m \in ModelIds :
          /\ (Alive(m) /\ last'.op \in {"evaluate", "clear_cache"}
              /\ last'.m # m) =>
                 caches'[models[m].calc_interpolator]
                     = caches[models[m].calc_interpolator]
          /\ Alive(m)' => caches'[models'[m].calc_interpolator].func_self = m]_vars

----------------------------------------------------------------------------
(* C10: what evaluate() returned or raised is, in every cache state, what  *)
(* a model without cache returns or raises for the same arguments; and     *)
(* every entry that enters the cache is the interpolator computed afresh   *)
(* for its cell and stays as it is while cached.                           *)
C10_CacheTransparent ==
    /\ [](last.op = "evaluate" =>
            [raised |-> last.raised, value |-> last.value]
                = EvaluateUncached(TheModel, last.args[1], last.args[2],
                                   last.args[3], last.args[4], last.args[5],
                                   argsort_tie))
    /\ [][\A i \in 1..Len(TheCache'.entries) :
             LET e == TheCache'.entries[i]
                 r == CalcInterpolatorUncached(TheModel, e.key[1], e.key[2],
                                               argsort_tie)
             IN  \/ e \in Range(TheCache.entries)
                 \/ r.raised = None /\ e.result = Fit(TheModel, r.image)]_vars

\* a hit at x0 = 1 / Res on the entry of cell (0, 0), inside the grid, that
\* was computed for x0 = 0
C10_Witness ==
    /\ last.op = "evaluate"
    /\ last.hit
    /\ last.args[4] = 1
    /\ last.branch = "cached"
    /\ ~last.value.filled
    /\ ~CellBeyond(TheModel, 0, 0)

====
